---- MODULE Spec2Model ----
(***************************************************************************)
(* Model of src/Quiz.py: the answer normalizer (MathTutorApp._norm), the   *)
(* response sanitizer (MathTutorApp._strip_hidden_thoughts) and the quiz   *)
(* controller (_check_answer, _gather_wrong_answers, _tutor_feedback).     *)
(*                                                                         *)
(* A text is a sequence of characters; a character is a one-character      *)
(* string, except the Unicode superscript digits, written "sup0".."sup9".  *)
(***************************************************************************)
EXTENDS Integers, Sequences, FiniteSets, TLC

VARIABLES
    txt, normed, renormed, npc,          \* one call of _norm, and a second on its result
    user, correct, ok, epc,              \* one equivalence check norm(user) == norm(correct)
    text, cleaned, spc,                  \* one call of _strip_hidden_thoughts
    questions, entries, disabled, labels, tutor_btn, prompt, n_errors, details, feedback

normVars == <<txt, normed, renormed, npc>>
equivVars == <<user, correct, ok, epc>>
sanVars == <<text, cleaned, spc>>
appVars == <<questions, entries, disabled, labels, tutor_btn, prompt, n_errors, details, feedback>>
vars == <<normVars, equivVars, sanVars, appVars>>

\* ------------------------------------------------------------ characters

\* The whitespace of str.strip() and of the pattern \s, among the characters the model uses.
Whitespace == {" ", "\t", "\n"}

IsSpace(c) == c \in Whitespace

\* "0123456789" in super_map and [0-9] in the exponent pattern.
Digits == {"0", "1", "2", "3", "4", "5", "6", "7", "8", "9"}

IsDigit(c) == c \in Digits

SuperDigits == {"sup0", "sup1", "sup2", "sup3", "sup4", "sup5", "sup6", "sup7", "sup8", "sup9"}

Letters == {"a", "b", "c", "d", "e", "g", "h", "i", "k", "m", "n", "o", "r", "s", "t", "u", "x", "z"}

UpperLetters == {"A", "B", "H", "I", "K", "N", "R", "T", "X"}

\* str.lower (and the folding of re.I) on the characters the model uses.
Lower(c) ==
    CASE c = "A" -> "a" [] c = "B" -> "b" [] c = "H" -> "h" [] c = "I" -> "i"
      [] c = "K" -> "k" [] c = "N" -> "n" [] c = "R" -> "r" [] c = "T" -> "t"
      [] c = "X" -> "x" [] OTHER -> c

\* regex \w (Unicode): letters, digits, underscore, and the superscript digits.
IsWord(c) == c \in Letters \cup UpperLetters \cup SuperDigits \cup {"_"} \/ IsDigit(c)

\* The code point of a character, for the order sorted() uses (the characters
\* that reach sorted() in the model are all listed).
Code(c) ==
    CASE c = "\t" -> 9 [] c = "\n" -> 10 [] c = " " -> 32 [] c = "#" -> 35
      [] c = "(" -> 40 [] c = ")" -> 41 [] c = "*" -> 42 [] c = "+" -> 43
      [] c = "-" -> 45 [] c = "1" -> 49 [] c = "2" -> 50
      [] c = "A" -> 65 [] c = "B" -> 66 [] c = "X" -> 88
      [] c = "a" -> 97 [] c = "b" -> 98 [] c = "x" -> 120
      [] OTHER -> 127

\* ------------------------------------------------------------ str methods

LowerStr(s) == [i \in 1..Len(s) |-> Lower(s[i])]

\* s[i:i+len(p)] == p
MatchAt(s, i, p) ==
    /\ i >= 1
    /\ i + Len(p) - 1 <= Len(s)
    /\ \A k \in 1..Len(p) : s[i + k - 1] = p[k]

\* str.find from position i: the first j >= i where p occurs, 0 when none.
Find(s, i, p) ==
    LET hits == {j \in i..(Len(s) - Len(p) + 1) : MatchAt(s, j, p)}
    IN IF hits = {} THEN 0 ELSE CHOOSE j \in hits : \A h \in hits : j <= h

\* str.replace(old, new): left to right, non-overlapping occurrences.
RECURSIVE ReplaceFrom(_, _, _, _)
ReplaceFrom(s, i, old, new) ==
    LET j == Find(s, i, old)
    IN IF j = 0 THEN SubSeq(s, i, Len(s))
       ELSE SubSeq(s, i, j - 1) \o new \o ReplaceFrom(s, j + Len(old), old, new)

Replace(s, old, new) == ReplaceFrom(s, 1, old, new)

\* str.strip(chars): every leading and trailing character of the set removed.
StripOf(s, chars) ==
    LET keep == {i \in 1..Len(s) : s[i] \notin chars}
    IN IF keep = {} THEN <<>>
       ELSE LET lo == CHOOSE i \in keep : \A k \in keep : i <= k
                hi == CHOOSE i \in keep : \A k \in keep : i >= k
            IN SubSeq(s, lo, hi)

\* str.strip(): whitespace off both ends.
Strip(s) == StripOf(s, Whitespace)

Parens == {"(", ")"}

IsParen(c) == c \in Parens

\* A strip that takes one parenthesis at most off each end.
StripOnePair(s) ==
    LET lo == IF s # <<>> /\ IsParen(s[1]) THEN 2 ELSE 1
        hi == IF Len(s) >= lo /\ IsParen(s[Len(s)]) THEN Len(s) - 1 ELSE Len(s)
    IN SubSeq(s, lo, hi)

\* str.strip("()"): every '(' and ')' off both ends, unbalanced or not.
StripParens(s) == StripOf(s, Parens)

\* str.split(sep) for a one-character separator: always at least one piece.
RECURSIVE SplitFrom(_, _, _)
SplitFrom(s, i, sep) ==
    LET j == Find(s, i, <<sep>>)
    IN IF j = 0 THEN <<SubSeq(s, i, Len(s))>>
       ELSE <<SubSeq(s, i, j - 1)>> \o SplitFrom(s, j + 1, sep)

Split(s, sep) == SplitFrom(s, 1, sep)

\* sep.join(parts)
RECURSIVE Join(_, _)
Join(parts, sep) ==
    IF parts = <<>> THEN <<>>
    ELSE IF Len(parts) = 1 THEN parts[1]
    ELSE parts[1] \o <<sep>> \o Join(Tail(parts), sep)

\* Python's order on str: by code point, a proper prefix first.
RECURSIVE StrLess(_, _)
StrLess(a, b) ==
    IF b = <<>> THEN FALSE
    ELSE IF a = <<>> THEN TRUE
    ELSE IF Code(a[1]) # Code(b[1]) THEN Code(a[1]) < Code(b[1])
    ELSE StrLess(Tail(a), Tail(b))

\* One insertion of sorted().
RECURSIVE Insert(_, _)
Insert(x, sortedSeq) ==
    IF sortedSeq = <<>> THEN <<x>>
    ELSE IF StrLess(sortedSeq[1], x) THEN <<sortedSeq[1]>> \o Insert(x, Tail(sortedSeq))
    ELSE <<x>> \o sortedSeq

\* sorted(list of str)
RECURSIVE Sorted(_)
Sorted(xs) == IF xs = <<>> THEN <<>> ELSE Insert(xs[1], Sorted(Tail(xs)))

\* [f for f in parts if f]
RECURSIVE NonEmpty(_)
NonEmpty(parts) ==
    IF parts = <<>> THEN <<>>
    ELSE IF parts[1] = <<>> THEN NonEmpty(Tail(parts))
    ELSE <<parts[1]>> \o NonEmpty(Tail(parts))

\* ------------------------------------------------------------ _norm

\* txt.lower().replace(" ", "").strip().replace(")(", ")*(")
NormExpr(t) == Replace(Strip(Replace(LowerStr(t), <<" ">>, <<>>)), <<")", "(">>, <<")", "*", "(">>)

\* The factors left in the order they were written.
NormFactorsUnsorted(expr) ==
    LET parts == NonEmpty(Split(expr, "*"))
    IN [i \in 1..Len(parts) |-> StripParens(parts[i])]

\* sorted(f.strip("()") for f in expr.split("*") if f)
NormFactors(expr) ==
    LET parts == NonEmpty(Split(expr, "*"))
    IN Sorted([i \in 1..Len(parts) |-> StripParens(parts[i])])

_norm(t) ==
    LET expr == NormExpr(t)
    IN IF \A i \in 1..Len(expr) : expr[i] # "*" THEN StripParens(expr)
       ELSE Join(NormFactors(expr), "*")

\* ------------------------------------------------------------ _strip_hidden_thoughts

\* re.sub of open(.*?)close under re.S, replaced by the group (keep) or by
\* nothing: from the leftmost open that has a close after it to the first such
\* close, then on from there. The search runs on `folded` (the text as the
\* pattern's flags see it), the output is cut from s.
RECURSIVE SubDelimited(_, _, _, _, _, _)
SubDelimited(s, folded, i, open, close, keep) ==
    LET a == Find(folded, i, open)
        b == IF a = 0 THEN 0 ELSE Find(folded, a + Len(open), close)
    IN IF b = 0 THEN SubSeq(s, i, Len(s))
       ELSE SubSeq(s, i, a - 1)
            \o (IF keep THEN SubSeq(s, a + Len(open), b - 1) ELSE <<>>)
            \o SubDelimited(s, folded, b + Len(close), open, close, keep)

ThinkOpen == <<"<", "t", "h", "i", "n", "k", ">">>
ThinkClose == <<"<", "/", "t", "h", "i", "n", "k", ">">>

\* re.sub(r"<think>.*?</think>", "", text, flags=re.I | re.S)
StripThink(s) == SubDelimited(s, LowerStr(s), 1, ThinkOpen, ThinkClose, FALSE)

\* (thought|razonamiento|assistant reasoning)
ReasoningWords ==
    { <<"t", "h", "o", "u", "g", "h", "t">>,
      <<"r", "a", "z", "o", "n", "a", "m", "i", "e", "n", "t", "o">>,
      <<"a", "s", "s", "i", "s", "t", "a", "n", "t", " ", "r", "e", "a", "s", "o", "n", "i", "n", "g">> }

\* (?m)^ : the start of the text or just after a newline.
LineStart(s, i) == i = 1 \/ s[i - 1] = "\n"

\* Where a greedy run of the set's characters from i ends: the first position
\* >= i that holds none of them, Len(s)+1 when there is none.
SkipWhile(s, i, chars) ==
    LET stops == {j \in i..Len(s) : s[j] \notin chars}
    IN IF stops = {} THEN Len(s) + 1 ELSE CHOOSE j \in stops : \A k \in stops : j <= k

\* Where .* from i ends (no re.S): the next newline, Len(s)+1 when there is none.
LineEnd(s, i) ==
    LET stops == {j \in i..Len(s) : s[j] = "\n"}
    IN IF stops = {} THEN Len(s) + 1 ELSE CHOOSE j \in stops : \A k \in stops : j <= k

\* The pattern without its ^ anchor.
ReasoningAnywhere(s, i) ==
    \E w \in ReasoningWords : MatchAt(LowerStr(s), SkipWhile(s, i, Whitespace), w)

\* ^\s*(thought|razonamiento|assistant reasoning) matches at i, under re.I.
ReasoningAt(s, i) ==
    /\ LineStart(s, i)
    /\ \E w \in ReasoningWords : MatchAt(LowerStr(s), SkipWhile(s, i, Whitespace), w)

\* re.sub(r"(?m)^\s*(thought|razonamiento|assistant reasoning).*", "", cleaned, flags=re.I)
RECURSIVE StripReasoningFrom(_, _)
StripReasoningFrom(s, i) ==
    IF i > Len(s) THEN <<>>
    ELSE IF ReasoningAt(s, i)
         THEN StripReasoningFrom(s, LineEnd(s, SkipWhile(s, i, Whitespace)))
    ELSE <<s[i]>> \o StripReasoningFrom(s, i + 1)

StripReasoning(s) == StripReasoningFrom(s, 1)

\* re.sub(r"(?m)^#+\s*", "", cleaned)
RECURSIVE StripHeadersFrom(_, _)
StripHeadersFrom(s, i) ==
    IF i > Len(s) THEN <<>>
    ELSE IF LineStart(s, i) /\ s[i] = "#"
         THEN StripHeadersFrom(s, SkipWhile(s, SkipWhile(s, i, {"#"}), Whitespace))
    ELSE <<s[i]>> \o StripHeadersFrom(s, i + 1)

StripHeaders(s) == StripHeadersFrom(s, 1)

\* latex_inline.sub(r"\1", cleaned): \( ... \)
LatexInline(s) == SubDelimited(s, s, 1, <<"\\", "(">>, <<"\\", ")">>, TRUE)

\* latex_block.sub(r"\1", cleaned): \[ ... \]
LatexBlock(s) == SubDelimited(s, s, 1, <<"\\", "[">>, <<"\\", "]">>, TRUE)

\* re.sub(r"\$\$([\s\S]*?)\$\$", r"\1", cleaned, flags=re.S)
LatexDollars(s) == SubDelimited(s, s, 1, <<"$", "$">>, <<"$", "$">>, TRUE)

\* The unwrap statements without the block rule.
LatexInlineOnly(s) == LatexInline(LatexInline(s))

\* The four unwrap statements, inline and block twice over.
LatexTwice(s) == LatexBlock(LatexInline(LatexBlock(LatexInline(s))))

\* re.sub(r"\((\w)\)", r"\1", cleaned)
RECURSIVE TrivialParensFrom(_, _)
TrivialParensFrom(s, i) ==
    IF i > Len(s) THEN <<>>
    ELSE IF i + 2 <= Len(s) /\ s[i] = "(" /\ IsWord(s[i + 1]) /\ s[i + 2] = ")"
         THEN <<s[i + 1]>> \o TrivialParensFrom(s, i + 3)
    ELSE <<s[i]>> \o TrivialParensFrom(s, i + 1)

TrivialParens(s) == TrivialParensFrom(s, 1)

\* ch.translate(super_map)
Superscript(c) ==
    CASE c = "0" -> "sup0" [] c = "1" -> "sup1" [] c = "2" -> "sup2" [] c = "3" -> "sup3"
      [] c = "4" -> "sup4" [] c = "5" -> "sup5" [] c = "6" -> "sup6" [] c = "7" -> "sup7"
      [] c = "8" -> "sup8" [] c = "9" -> "sup9" [] OTHER -> c

\* re.sub(r"\^([0-9]+)", <the digits as superscripts>, cleaned)
RECURSIVE SuperscriptsFrom(_, _)
SuperscriptsFrom(s, i) ==
    IF i > Len(s) THEN <<>>
    ELSE IF i + 1 <= Len(s) /\ s[i] = "^" /\ IsDigit(s[i + 1])
         THEN LET e == SkipWhile(s, i + 1, Digits)
              IN [k \in 1..(e - i - 1) |-> Superscript(s[i + k])] \o SuperscriptsFrom(s, e)
    ELSE <<s[i]>> \o SuperscriptsFrom(s, i + 1)

Superscripts(s) == SuperscriptsFrom(s, 1)

\* cleaned.replace("#", "")
DropHashes(s) == Replace(s, <<"#">>, <<>>)

\* `cleaned` when the LaTeX statements are reached.
BeforeLatex(s) == StripHeaders(StripReasoning(StripThink(s)))

\* `cleaned` after the exponent conversion, before the return statement.
BeforeReturn(s) == Superscripts(TrivialParens(LatexDollars(LatexTwice(BeforeLatex(s)))))

_strip_hidden_thoughts(s) == Strip(DropHashes(BeforeReturn(s)))

\* ------------------------------------------------------------ inputs

MaxLen == 5

NormAlphabet == {"(", ")", "*", " ", "\t", "a", "A", "b"}

\* Every text of at most n characters over an alphabet.
Texts(alphabet, n) == UNION {[1..k -> alphabet] : k \in 0..n}

NoText == <<"none">>

NormIdle == txt = <<>> /\ normed = NoText /\ renormed = NoText /\ npc = "idle"
EquivIdle == user = <<>> /\ correct = <<>> /\ ok = FALSE /\ epc = "idle"
SanIdle == text = <<>> /\ cleaned = NoText /\ spc = "idle"
AppIdle ==
    /\ questions = <<>> /\ entries = <<>> /\ disabled = <<>> /\ labels = <<>>
    /\ tutor_btn = "disabled" /\ prompt = "none" /\ n_errors = -1 /\ details = <<>>
    /\ feedback = NoText

\* Every concatenation of at most n of the fragments.
RECURSIVE Pieces(_, _)
Pieces(frags, n) ==
    IF n = 0 THEN {<<>>}
    ELSE LET shorter == Pieces(frags, n - 1)
         IN shorter \cup {f \o t : f \in frags, t \in shorter}

\* ------------------------------------------------------------ the normalizer alone

InitNorm ==
    /\ txt \in Texts(NormAlphabet, MaxLen)
    /\ normed = NoText /\ renormed = NoText /\ npc = "start"
    /\ EquivIdle /\ SanIdle /\ AppIdle

\* normalize(txt)
Normalize ==
    /\ npc = "start"
    /\ normed' = _norm(txt)
    /\ npc' = "normed"
    /\ UNCHANGED <<txt, renormed, equivVars, sanVars, appVars>>

\* normalize(normalize(txt))
Renormalize ==
    /\ npc = "normed"
    /\ renormed' = _norm(normed)
    /\ npc' = "renormed"
    /\ UNCHANGED <<txt, normed, equivVars, sanVars, appVars>>

NextNorm == Normalize \/ Renormalize

SpecNorm == InitNorm /\ [][NextNorm]_vars

\* C2: normalize is idempotent, normalize(normalize(s)) == normalize(s), for
\* every input s, empty factors, stray '*' and unbalanced parentheses included.
C2_NormIdempotent == npc = "renormed" => renormed = normed

\* s lower-cased with every whitespace character removed.
RECURSIVE Squeeze(_)
Squeeze(s) ==
    IF s = <<>> THEN <<>>
    ELSE IF IsSpace(s[1]) THEN Squeeze(Tail(s))
    ELSE <<Lower(s[1])>> \o Squeeze(Tail(s))

\* C3: normalize(s) equals normalize of s lower-cased with all its whitespace
\* (spaces, tabs, newlines, anywhere) removed, and its result holds no
\* whitespace character.
C3_NormIgnoresCaseAndWhitespace ==
    npc # "start" =>
        /\ normed = _norm(Squeeze(txt))
        /\ \A i \in 1..Len(normed) : ~IsSpace(normed[i])

\* A non-empty lower-case term without '*', '(', ')' or whitespace.
IsTerm(t) ==
    /\ t # <<>>
    /\ \A i \in 1..Len(t) : Lower(t[i]) = t[i] /\ ~IsParen(t[i]) /\ t[i] # "*" /\ ~IsSpace(t[i])

\* k opening parentheses, s, k closing parentheses.
RECURSIVE Wrap(_, _)
Wrap(s, k) == IF k = 0 THEN s ELSE <<"(">> \o Wrap(s, k - 1) \o <<")">>

\* The wrapping depths k for which s is a term in k parenthesis pairs.
WrapDepths(s) == {k \in 0..(Len(s) \div 2) : IsTerm(SubSeq(s, k + 1, Len(s) - k)) /\ s = Wrap(SubSeq(s, k + 1, Len(s) - k), k)}

\* C4: a term t (non-empty, lower-case, no '*', '(', ')' or whitespace) in any
\* number k >= 0 of parenthesis pairs normalizes to t, as t itself does; and
\* the empty text normalizes to the empty text.
C4_SingleTermPassthrough ==
    npc # "start" =>
        /\ \A k \in WrapDepths(txt) :
              /\ normed = SubSeq(txt, k + 1, Len(txt) - k)
              /\ _norm(SubSeq(txt, k + 1, Len(txt) - k)) = normed
        /\ txt = <<>> => normed = <<>>

C4_Witness == npc = "normed" /\ txt = <<"(", "(", "a", ")", ")">> /\ normed = <<"a">>

\* ------------------------------------------------------------ the equivalence check

MaxFactors == 2

\* The factors the answers are built from.
Factors == {<<"x", "+", "1">>, <<"x", "-", "1">>, <<"X", "+", "1">>, <<"x">>}

\* What joins two factors: nothing, or '*'.
Joiners == {<<>>, <<"*">>}

\* "(f1)" j1 "(f2)" ... "(fn)"
RECURSIVE Product(_, _)
Product(fs, js) ==
    IF Len(fs) = 1 THEN <<"(">> \o fs[1] \o <<")">>
    ELSE <<"(">> \o fs[1] \o <<")">> \o js[1] \o Product(Tail(fs), Tail(js))

Products ==
    UNION {{Product(fs, js) : fs \in [1..n -> Factors], js \in [1..(n - 1) -> Joiners]} : n \in 1..MaxFactors}

InitEquiv ==
    /\ user \in Products
    /\ correct \in Products
    /\ ok = FALSE /\ epc = "start"
    /\ NormIdle /\ SanIdle /\ AppIdle

\* ok = self._norm(user) == self._norm(correct)
CheckEquivalence ==
    /\ epc = "start"
    /\ ok' = (_norm(user) = _norm(correct))
    /\ epc' = "judged"
    /\ UNCHANGED <<user, correct, normVars, sanVars, appVars>>

NextEquiv == CheckEquivalence

SpecEquiv == InitEquiv /\ [][NextEquiv]_vars

\* The lower-cased factors of a product, read off the text: the maximal runs
\* of characters other than '(', ')' and '*'.
RECURSIVE FactorsFrom(_, _, _)
FactorsFrom(s, i, run) ==
    IF i > Len(s) THEN (IF run = <<>> THEN <<>> ELSE <<run>>)
    ELSE IF IsParen(s[i]) \/ s[i] = "*"
         THEN (IF run = <<>> THEN <<>> ELSE <<run>>) \o FactorsFrom(s, i + 1, <<>>)
    ELSE FactorsFrom(s, i + 1, run \o <<Lower(s[i])>>)

FactorsOf(s) == FactorsFrom(s, 1, <<>>)

Occurrences(f, fs) == Cardinality({i \in 1..Len(fs) : fs[i] = f})

SameMultiset(fs, gs) ==
    /\ Len(fs) = Len(gs)
    /\ \A i \in 1..Len(fs) : Occurrences(fs[i], fs) = Occurrences(fs[i], gs)

\* C1: two products of parenthesised factors are judged equivalent exactly
\* when their lower-cased factors are equal as multisets: any reordering is
\* correct, any difference in a factor's content or multiplicity is not.
C1_EquivalentIffSameFactors ==
    epc = "judged" => (ok <=> SameMultiset(FactorsOf(user), FactorsOf(correct)))

\* "(x-1)*(X+1)" is judged equivalent to "(x+1)(x-1)".
C1_Witness ==
    /\ epc = "judged" /\ ok
    /\ user = <<"(", "x", "-", "1", ")", "*", "(", "X", "+", "1", ")">>
    /\ correct = <<"(", "x", "+", "1", ")", "(", "x", "-", "1", ")">>


\* ------------------------------------------------------------ the sanitizer alone

MaxThinkPieces == 4
MaxLatexPieces == 4
MaxPlainPieces == 4
MaxMarkChars == 5
MaxHeaderChars == 4

\* Replies with reasoning tags, whole and in parts.
ThinkTexts ==
    Pieces({ThinkOpen, ThinkClose, <<"<", "/", "T", "H", "I", "N", "K", ">">>,
            <<"<", "t", "h", "i">>, <<"n", "k", ">">>, <<"#">>, <<"s">>}, MaxThinkPieces)

\* Replies with LaTeX delimiters.
LatexTexts ==
    Pieces({<<"\\", "(">>, <<"\\", ")">>, <<"\\", "[">>, <<"\\", "]">>, <<"$", "$">>,
            <<"a">>, <<"\n">>}, MaxLatexPieces)

\* Replies of words, spaces and lines, reasoning words among them.
PlainTexts ==
    Pieces({<<"a">>, <<" ">>, <<"\n">>, <<"T", "h", "o", "u", "g", "h", "t">>,
            <<"r", "a", "z", "o", "n", "a", "m", "i", "e", "n", "t", "o">>,
            <<"a", "s", "s", "i", "s", "t", "a", "n", "t", " ", "r", "e", "a", "s", "o", "n", "i", "n", "g">>},
           MaxPlainPieces)

\* Replies with exponents, parentheses and header marks.
MarkTexts == Texts({"^", "1", "#", "a", "(", ")"}, MaxMarkChars)

\* Replies with header marks, spaces and lines.
HeaderTexts == Texts({"#", " ", "\n", "a"}, MaxHeaderChars)

InitSan ==
    /\ text \in ThinkTexts \cup LatexTexts \cup PlainTexts \cup MarkTexts \cup HeaderTexts
    /\ cleaned = NoText /\ spc = "start"
    /\ NormIdle /\ EquivIdle /\ AppIdle

\* return self._strip_hidden_thoughts(raw)
Sanitize ==
    /\ spc = "start"
    /\ cleaned' = _strip_hidden_thoughts(text)
    /\ spc' = "done"
    /\ UNCHANGED <<text, normVars, equivVars, appVars>>

NextSan == Sanitize

SpecSan == InitSan /\ [][NextSan]_vars

\* s holds an opening tag and, after it, a closing tag (case-insensitively).
HasThinkBlock(s) ==
    \E i, j \in 1..Len(s) :
        /\ MatchAt(LowerStr(s), i, ThinkOpen)
        /\ j >= i + Len(ThinkOpen)
        /\ MatchAt(LowerStr(s), j, ThinkClose)

\* C5: the result of sanitize holds no substring from an opening <think> tag
\* to a later closing </think> tag, and "<think>s</think>a" gives "a".
C5_NoThinkBlockLeft ==
    spc = "done" =>
        /\ ~HasThinkBlock(cleaned)
        /\ text = ThinkOpen \o <<"s">> \o ThinkClose \o <<"s">> => cleaned = <<"s">>

\* s holds a '^' immediately followed by an ASCII digit.
HasCaretDigit(s) == \E i \in 1..(Len(s) - 1) : s[i] = "^" /\ IsDigit(s[i + 1])

\* C6: every run of ASCII digits immediately preceded by '^' becomes the
\* superscript digits of the same length, the caret removed ("a^11" gives "a"
\* and two superscript ones), so that for every input the result of sanitize
\* holds no '^' immediately followed by an ASCII digit.
C6_NoCaretDigitLeft ==
    spc = "done" =>
        /\ ~HasCaretDigit(cleaned)
        /\ text = <<"a", "^", "1", "1">> => cleaned = <<"a", "sup1", "sup1">>

\* The pipeline with the inline, block and $$ rules applied once each.
SanitizeOnce(s) ==
    Strip(DropHashes(Superscripts(TrivialParens(LatexDollars(LatexBlock(LatexInline(BeforeLatex(s))))))))

\* C7 as stated: the reference pipeline, with its inline and block unwraps
\* applied twice, gives for every input the result of the pipeline that
\* applies each unwrap rule once.
C7_DuplicateUnwrapUnobservable == spc = "done" => cleaned = SanitizeOnce(text)

\* s holds an opening delimiter and, after it, the closing one.
HasPair(s, open, close) ==
    \E i, j \in 1..Len(s) : MatchAt(s, i, open) /\ j >= i + Len(open) /\ MatchAt(s, j, close)

\* One inline and one block pass leave no \( ... \) and no \[ ... \] pair.
UnwrappedByOnePass(s) ==
    LET once == LatexBlock(LatexInline(BeforeLatex(s)))
    IN /\ ~HasPair(once, <<"\\", "(">>, <<"\\", ")">>)
       /\ ~HasPair(once, <<"\\", "[">>, <<"\\", "]">>)

\* C7 as amended: the two pipelines give the same result for every input that
\* one inline and one block pass leave without a delimiter pair.
C7_DuplicateUnwrapUnobservableWhenFlat ==
    spc = "done" /\ UnwrappedByOnePass(text) => cleaned = SanitizeOnce(text)

C7_Witness ==
    /\ spc = "done"
    /\ text = <<"\\", "(", "a", "\n", "\\", ")">>
    /\ UnwrappedByOnePass(text)
    /\ cleaned = <<"a">>

\* s holds "(" c ")" with c one word character.
HasTrivialGroup(s) ==
    \E i \in 1..(Len(s) - 2) : s[i] = "(" /\ IsWord(s[i + 1]) /\ s[i + 2] = ")"

\* C8: the result of sanitize holds no "(" c ")" with c one word character,
\* and a group of two characters, "(aa)", is left untouched.
C8_NoTrivialGroupLeft ==
    spc = "done" =>
        /\ ~HasTrivialGroup(cleaned)
        /\ text = <<"(", "a", "a", ")">> => cleaned = text

\* No leading or trailing whitespace, none of < # \ $ ( ) ^, and no line that
\* begins, after spaces or tabs, with one of the reasoning words.
IsPlain(s) ==
    /\ s # <<>> => ~IsSpace(s[1]) /\ ~IsSpace(s[Len(s)])
    /\ \A i \in 1..Len(s) : s[i] \notin {"<", "#", "\\", "$", "(", ")", "^"}
    /\ \A i \in 1..Len(s) :
          (i = 1 \/ s[i - 1] = "\n") =>
              LET stops == {j \in i..Len(s) : s[j] \notin {" ", "\t"}}
                  first == IF stops = {} THEN Len(s) + 1
                           ELSE CHOOSE j \in stops : \A k \in stops : j <= k
              IN \A w \in ReasoningWords : ~MatchAt(LowerStr(s), first, w)

\* C9: sanitize returns a plain text (no leading or trailing whitespace, no
\* marker character, no line beginning with a reasoning word) unchanged.
C9_PlainTextUnchanged == spc = "done" /\ IsPlain(text) => cleaned = text

\* "aThought\na": a reasoning word inside a line, and a second line.
C9_Witness ==
    /\ spc = "done"
    /\ text = <<"a", "T", "h", "o", "u", "g", "h", "t", "\n", "a">>
    /\ IsPlain(text)
    /\ cleaned = text


\* ------------------------------------------------------------ the quiz

\* MathTutorApp(..., n=2): the number of questions sampled.
NQuestions == 2

\* The correct answers a question file may hold ("respuesta"), an empty one among them.
AnswerPool == {<<"(", "a", ")", "(", "b", ")">>, <<"a">>, <<>>}

\* What a student may type into an entry.
EntryTexts == {<<>>, <<"(", "b", ")", "*", "(", "A", ")">>, <<"a">>}

\* The replies of the LLM endpoint (content of the first choice).
Replies ==
    { ThinkOpen \o <<"s">> \o ThinkClose \o <<"a">>,
      <<" ", "#", " ", "a", "^", "1">> }

\* f"Error al consultar LLM: {exc}"
ErrorText == <<"E", "r", "r", "o", "r">>

\* random.sample(questions, n) if n <= len(questions) else questions; the
\* entries start empty and enabled, the tutor button disabled.
InitApp ==
    /\ questions \in UNION {[1..k -> AnswerPool] : k \in 0..NQuestions}
    /\ entries = [i \in 1..Len(questions) |-> <<>>]
    /\ disabled = [i \in 1..Len(questions) |-> FALSE]
    /\ labels = [i \in 1..Len(questions) |-> ""]
    /\ tutor_btn = "disabled"
    /\ prompt = "none" /\ n_errors = -1 /\ details = <<>>
    /\ feedback = NoText
    /\ NormIdle /\ EquivIdle /\ SanIdle

\* The student types into an entry that is still enabled.
EditEntry(i, s) ==
    /\ i \in 1..Len(entries)
    /\ ~disabled[i]
    /\ entries' = [entries EXCEPT ![i] = s]
    /\ UNCHANGED <<questions, disabled, labels, tutor_btn, prompt, n_errors, details, feedback>>
    /\ UNCHANGED <<normVars, equivVars, sanVars>>

\* _check_answer(idx)
_check_answer(i) ==
    /\ i \in 1..Len(entries)
    /\ LET isOk == _norm(entries[i]) = _norm(questions[i])
       IN /\ labels' = [labels EXCEPT ![i] = IF isOk THEN "Correcto" ELSE "Incorrecto"]
          /\ disabled' = [disabled EXCEPT ![i] = IF isOk THEN TRUE ELSE @]
    /\ tutor_btn' = "normal"
    /\ UNCHANGED <<questions, entries, prompt, n_errors, details, feedback>>
    /\ UNCHANGED <<normVars, equivVars, sanVars>>

\* The entries compared as typed, without _norm.
GatherWrongRaw(ents, qs) ==
    LET RECURSIVE From(_)
        From(i) ==
            IF i > Len(ents) THEN <<>>
            ELSE IF ents[i] # qs[i] THEN <<(<<i, ents[i]>>)>> \o From(i + 1)
            ELSE From(i + 1)
    IN From(1)

\* _gather_wrong_answers(): the (index, text) of every entry whose text is not
\* equivalent to its answer (indices from 1 here, from 0 in the code).
_gather_wrong_answers(ents, qs) ==
    LET RECURSIVE From(_)
        From(i) ==
            IF i > Len(ents) THEN <<>>
            ELSE IF _norm(ents[i]) # _norm(qs[i]) THEN <<(<<i, ents[i]>>)>> \o From(i + 1)
            ELSE From(i + 1)
    IN From(1)

\* _ask_llm and _show_feedback: the reply, stripped and sanitized, or the
\* error text, is what the feedback box shows.
ShowReply ==
    \/ \E reply \in Replies : feedback' = _strip_hidden_thoughts(Strip(reply))
    \/ feedback' = ErrorText

\* _tutor_feedback(), which the tutor button calls once it is enabled.
_tutor_feedback ==
    /\ tutor_btn = "normal"
    /\ LET wrong_answers == _gather_wrong_answers(entries, questions)
       IN /\ prompt' = IF wrong_answers = <<>> THEN "all_correct"
                        ELSE IF Len(wrong_answers) = Len(questions) THEN "all_wrong"
                        ELSE "some_wrong"
          /\ n_errors' = IF wrong_answers = <<>> THEN -1 ELSE Len(wrong_answers)
          /\ details' = wrong_answers
    /\ ShowReply
    /\ UNCHANGED <<questions, entries, disabled, labels, tutor_btn>>
    /\ UNCHANGED <<normVars, equivVars, sanVars>>

NextApp ==
    \/ \E i \in 1..NQuestions, s \in EntryTexts : EditEntry(i, s)
    \/ \E i \in 1..NQuestions : _check_answer(i)
    \/ _tutor_feedback

Spec == InitApp /\ [][NextApp]_vars

\* The entries whose text is not equivalent to the answer of their question.
NotEquivalent == {i \in 1..Len(entries) : _norm(entries[i]) # _norm(questions[i])}

\* The prompt a feedback request has just selected follows from the entries.
PromptFollowsEntries ==
    /\ prompt' = "all_correct" <=> NotEquivalent = {}
    /\ prompt' = "all_wrong" <=> Len(questions) >= 1 /\ NotEquivalent = 1..Len(questions)
    /\ prompt' \in {"all_correct", "all_wrong", "some_wrong"}
    /\ prompt' # "all_correct" => n_errors' = Cardinality(NotEquivalent)
    /\ {details'[k][1] : k \in 1..Len(details')} = NotEquivalent

\* C10 as stated: a feedback request selects all_correct exactly when every
\* entry is equivalent to its answer, all_wrong exactly when there is a
\* question and no entry is, some_wrong otherwise, with n_errors the number of
\* entries that are not equivalent; and an empty entry counts as wrong.
C10_PromptFromEntriesEmptyWrong ==
    [][_tutor_feedback =>
        /\ PromptFollowsEntries
        /\ \A i \in 1..Len(entries) :
              entries[i] = <<>> => \E k \in 1..Len(details') : details'[k][1] = i]_vars

\* C10 as amended: the same, an empty entry counting as wrong unless the
\* answer of its question itself normalizes to the empty text.
C10_PromptFromEntries ==
    [][_tutor_feedback =>
        /\ PromptFollowsEntries
        /\ \A i \in 1..Len(entries) :
              entries[i] = <<>> /\ _norm(questions[i]) # <<>>
                  => \E k \in 1..Len(details') : details'[k][1] = i]_vars

\* One entry judged correct and disabled ("(b)*(A)" for "(a)(b)"), the other
\* left empty, and the feedback asked for: some_wrong with one error.
C10_Witness ==
    /\ questions = <<(<<"(", "a", ")", "(", "b", ")">>), <<"a">> >>
    /\ entries = <<(<<"(", "b", ")", "*", "(", "A", ")">>), <<>> >>
    /\ disabled = <<TRUE, FALSE>>
    /\ prompt = "some_wrong" /\ n_errors = 1
    /\ details = <<(<<2, <<>> >>)>>

====
